---- MODULE Spec2Model ----
(***************************************************************************)
(* The Collatz sequence analysis engine: collatz_sequence, analyze_sequence *)
(* and the analyze / analyze-range request handlers of the web API.        *)
(*                                                                         *)
(* Python integers are unbounded, so the arithmetic is that of Integers.   *)
(* execution_time and timestamp are wall-clock readings that no decision   *)
(* of the code depends on; the analysis records leave them out.            *)
(***************************************************************************)
EXTENDS Integers, Sequences, FiniteSets, TLC

(* ---------------------------- bounds ----------------------------------- *)
\* Direct calls and single-number requests take n in -MaxNeg .. MaxN.
MaxN == 27
MaxNeg == 1
\* Range requests take small bounds in -MaxNeg .. MaxBound, and the bounds
\* around the range cap listed in CapBounds.
MaxBound == 5
\* Iterations after which the model stops following the while loop of a
\* direct call.  The code has no such cap; the termination property states
\* that it never binds.
MaxSteps == 200
\* run_analysis takes its bounds in 0 .. MaxRun, and one CollatzConjecture
\* object serves at most MaxRequests calls of it that return.
MaxRun == 2
MaxRequests == 2

(* ---------------------- program constants ------------------------------ *)
RangeCap == 1000

ErrStartingNumber == "Starting number must be positive"
ErrNumber == "Number must be positive"
ErrNumbers == "Numbers must be positive"
ErrRangeTooLarge == "Range too large. Maximum 1000 numbers allowed."

(* ------------------------- collatz_sequence ---------------------------- *)
\* `if n <= 0: raise ValueError(...)`
collatz_sequence_raises_lt(n) == n < 0
collatz_sequence_raises(n) == n <= 0

\* One pass through the body of the while loop: the new value of current.
CollatzStep_minus(current) ==
    IF current % 2 = 0 THEN current \div 2 ELSE 3 * current - 1
CollatzStep(current) ==
    IF current % 2 = 0 THEN current \div 2 ELSE 3 * current + 1

\* `while current != 1`
LoopCond_gt2(current) == current > 2
LoopCond(current) == current # 1

\* The locals of collatz_sequence before the loop: `sequence = [n]`,
\* `current = n`.
Locals(n) == [sequence |-> <<n>>, current |-> n]

\* The while loop taken once from the locals st: the test, and the body if
\* the test holds.
LoopOnce_stale(st) ==
    IF LoopCond(st.current)
    THEN [sequence |-> Append(st.sequence, st.current),
          current |-> CollatzStep(st.current)]
    ELSE st
LoopOnce(st) ==
    IF LoopCond(st.current)
    THEN LET next == CollatzStep(st.current)
         IN  [sequence |-> Append(st.sequence, next), current |-> next]
    ELSE st

\* The while loop taken up to 2, 4, ... 256 times, stopping at its exit.
Loop2(st)   == IF LoopCond(st.current) THEN LoopOnce(LoopOnce(st)) ELSE st
Loop4(st)   == IF LoopCond(st.current) THEN Loop2(Loop2(st)) ELSE st
Loop8(st)   == IF LoopCond(st.current) THEN Loop4(Loop4(st)) ELSE st
Loop16(st)  == IF LoopCond(st.current) THEN Loop8(Loop8(st)) ELSE st
Loop32(st)  == IF LoopCond(st.current) THEN Loop16(Loop16(st)) ELSE st
Loop64(st)  == IF LoopCond(st.current) THEN Loop32(Loop32(st)) ELSE st
Loop128(st) == IF LoopCond(st.current) THEN Loop64(Loop64(st)) ELSE st
Loop256(st) == IF LoopCond(st.current) THEN Loop128(Loop128(st)) ELSE st

\* The while loop run from the locals st.  Every n the model analyzes leaves
\* the loop within 256 iterations: C1_StartsAtNEndsAtOne finds each sequence
\* to end in 1.
WhileLoop(st) == Loop256(st)

\* collatz_sequence(n) for an n it does not raise on: `return sequence`.
collatz_sequence(n) == WhileLoop(Locals(n)).sequence

(* ------------------------- analyze_sequence ---------------------------- *)
\* Python's max(sequence): the greatest element, found by halving the list.
RECURSIVE MaxOf(_, _, _)
MaxOf(seq, lo, hi) ==
    IF lo = hi THEN seq[lo]
    ELSE LET mid == (lo + hi) \div 2
             a == MaxOf(seq, lo, mid)
             b == MaxOf(seq, mid + 1, hi)
         IN  IF b > a THEN b ELSE a

max_first(seq) == seq[1]
max(seq) == MaxOf(seq, 1, Len(seq))

\* Python's sequence.index(value): the zero-based position of the first
\* element equal to value (value is known to occur).
Occurrences(seq, value) == {i \in 1 .. Len(seq) : seq[i] = value}

index_one_based(seq, value) ==
    LET at == Occurrences(seq, value)
    IN  CHOOSE i \in at : \A j \in at : i <= j
index(seq, value) ==
    LET at == Occurrences(seq, value)
    IN  (CHOOSE i \in at : \A j \in at : i <= j) - 1

Analysis(n, seq, max_value, peak_index, total) ==
    [ starting_number |-> n,
      sequence_length |-> Len(seq),
      max_value       |-> max_value,
      steps_to_peak   |-> peak_index,
      total_steps     |-> total,
      peak_value      |-> max_value,
      sequence        |-> seq ]

analyze_sequence_len(n) ==
    LET seq == collatz_sequence(n)
        max_value == max(seq)
    IN  Analysis(n, seq, max_value, index(seq, max_value), Len(seq))
analyze_sequence(n) ==
    LET seq == collatz_sequence(n)
        max_value == max(seq)
        peak_index == index(seq, max_value)
    IN  Analysis(n, seq, max_value, peak_index, Len(seq) - 1)

(* ------------------- CollatzAnalyzer.analyze_range --------------------- *)
\* range(a, b) as a list.
PyRange(a, b) == [i \in 1 .. (b - a) |-> a + i - 1]

\* The loop over range(start_range, end_range + 1); a number whose analysis
\* raises is skipped (`except Exception: ... continue`).
CollatzAnalyzer_analyze_range_excl(start_range, end_range) ==
    LET numbers == PyRange(start_range, end_range)
        ok == SelectSeq(numbers, LAMBDA n : ~collatz_sequence_raises(n))
    IN  [i \in 1 .. Len(ok) |-> analyze_sequence(ok[i])]
CollatzAnalyzer_analyze_range(start_range, end_range) ==
    LET numbers == PyRange(start_range, end_range + 1)
        ok == SelectSeq(numbers, LAMBDA n : ~collatz_sequence_raises(n))
    IN  [i \in 1 .. Len(ok) |-> analyze_sequence(ok[i])]

(* ------------------- CollatzAnalyzer.generate_insights ----------------- *)
TopK == 5

ErrNoData == "No data available for analysis"

\* The position in lo .. hi, outside taken, of the greatest of keys, the
\* earliest of them on a tie; 0 when every position is taken.
RECURSIVE ArgMax_last(_, _, _, _)
ArgMax_last(keys, taken, lo, hi) ==
    IF lo = hi THEN (IF lo \in taken THEN 0 ELSE lo)
    ELSE LET mid == (lo + hi) \div 2
             a == ArgMax_last(keys, taken, lo, mid)
             b == ArgMax_last(keys, taken, mid + 1, hi)
         IN  IF a = 0 THEN b
             ELSE IF b = 0 THEN a
             ELSE IF keys[b] >= keys[a] THEN b ELSE a
RECURSIVE ArgMax(_, _, _, _)
ArgMax(keys, taken, lo, hi) ==
    IF lo = hi THEN (IF lo \in taken THEN 0 ELSE lo)
    ELSE LET mid == (lo + hi) \div 2
             a == ArgMax(keys, taken, lo, mid)
             b == ArgMax(keys, taken, mid + 1, hi)
         IN  IF a = 0 THEN b
             ELSE IF b = 0 THEN a
             ELSE IF keys[b] > keys[a] THEN b ELSE a

\* df.nlargest(n, column): the n rows greatest on the column, in descending
\* order, rows equal on it in their order in the frame, all rows when there
\* are fewer than n.  keys is the column; the result lists row positions.
RECURSIVE NLargestFrom(_, _, _)
NLargestFrom(n, keys, picked) ==
    IF Len(picked) >= n \/ Len(picked) >= Len(keys) THEN picked
    ELSE LET taken == {picked[i] : i \in 1 .. Len(picked)}
             best == ArgMax(keys, taken, 1, Len(keys))
         IN  NLargestFrom(n, keys, Append(picked, best))

nlargest(n, keys) == NLargestFrom(n, keys, <<>>)

\* The sum of keys[lo .. hi].
RECURSIVE SumOf(_, _, _)
SumOf(keys, lo, hi) ==
    IF lo = hi THEN keys[lo]
    ELSE LET mid == (lo + hi) \div 2
         IN  SumOf(keys, lo, mid) + SumOf(keys, mid + 1, hi)

\* df[column].mean(), kept as the exact fraction sum / count.
Mean(keys) == [sum |-> SumOf(keys, 1, Len(keys)), count |-> Len(keys)]

\* df[column].min()
min(keys) == 0 - max([i \in 1 .. Len(keys) |-> 0 - keys[i]])

generate_insights(data) ==
    IF data = <<>>
    THEN [error |-> ErrNoData]
    ELSE LET lengths == [i \in 1 .. Len(data) |-> data[i].sequence_length]
             peaks == [i \in 1 .. Len(data) |-> data[i].max_value]
             to_peak == [i \in 1 .. Len(data) |-> data[i].steps_to_peak]
             longest == nlargest(TopK, lengths)
             highest == nlargest(TopK, peaks)
         IN  [ total_numbers_analyzed  |-> Len(data),
               average_sequence_length |-> Mean(lengths),
               max_sequence_length     |-> max(lengths),
               min_sequence_length     |-> min(lengths),
               average_max_value       |-> Mean(peaks),
               highest_peak_value      |-> max(peaks),
               average_steps_to_peak   |-> Mean(to_peak),
               numbers_with_longest_sequences |->
                   [i \in 1 .. Len(longest) |->
                       [starting_number |-> data[longest[i]].starting_number,
                        sequence_length |-> data[longest[i]].sequence_length]],
               numbers_with_highest_peaks |->
                   [i \in 1 .. Len(highest) |->
                       [starting_number |-> data[highest[i]].starting_number,
                        max_value |-> data[highest[i]].max_value]] ]

(* ---------------------- CollatzConjecture (library) -------------------- *)
ErrKeySequence == "KeyError: 'sequence'"

\* run_analysis, the loop: range(start_range, end_range + 1), a number whose
\* analysis raises being printed and skipped.
run_analysis_results(start_range, end_range) ==
    LET numbers == PyRange(start_range, end_range + 1)
        ok == SelectSeq(numbers, LAMBDA n : ~collatz_sequence_raises(n))
    IN  [i \in 1 .. Len(ok) |-> analyze_sequence(ok[i])]

\* `df = pd.DataFrame(results)` then `df['sequence']`: a frame built from an
\* empty list has no columns, and the lookup raises KeyError.
frame_raises(results) == results = <<>>

\* `pd.concat([self.data, df], ignore_index=True)`: the rows of self.data
\* followed by the rows of df.
concat_replace(rows, df) == df
concat(rows, df) == rows \o df

\* CollatzConjecture.generate_insights: the same statistics, over self.data.
CollatzConjecture_generate_insights(rows) == generate_insights(rows)

(* ----------------------------- handlers -------------------------------- *)
\* A handler's response: the status code and the JSON body.  insights is
\* <<>> when the body has no 'insights' key.
Response(code, success, error, data) ==
    [code |-> code, success |-> success, error |-> error, data |-> data,
     insights |-> <<>>]

ResponseWithInsights(data, insights) ==
    [Response(200, TRUE, "", data) EXCEPT !.insights = <<insights>>]

NoResponse == Response(0, FALSE, "", <<>>)

\* analyze_single: POST /api/analyze
analyze_single_response(number) ==
    IF number <= 0
    THEN Response(400, FALSE, ErrNumber, <<>>)
    ELSE Response(200, TRUE, "", <<analyze_sequence(number)>>)

\* `if end_num - start_num > 1000`
RangeTooLarge_ge(start_num, end_num) == end_num - start_num >= RangeCap
RangeTooLarge(start_num, end_num) == end_num - start_num > RangeCap

\* analyze_range: POST /api/analyze-range
analyze_range_response_noswap(start, end) ==
    IF start <= 0 \/ end <= 0
    THEN Response(400, FALSE, ErrNumbers, <<>>)
    ELSE IF RangeTooLarge(start, end)
         THEN Response(400, FALSE, ErrRangeTooLarge, <<>>)
         ELSE LET results == CollatzAnalyzer_analyze_range(start, end)
              IN  ResponseWithInsights(results, generate_insights(results))
analyze_range_response_novalidate(start, end) ==
    LET start_num == IF start > end THEN end ELSE start
        end_num   == IF start > end THEN start ELSE end
        results   == CollatzAnalyzer_analyze_range(start_num, end_num)
    IN  IF RangeTooLarge(start_num, end_num)
        THEN Response(400, FALSE, ErrRangeTooLarge, <<>>)
        ELSE ResponseWithInsights(results, generate_insights(results))
analyze_range_response(start, end) ==
    IF start <= 0 \/ end <= 0
    THEN Response(400, FALSE, ErrNumbers, <<>>)
    ELSE LET start_num == IF start > end THEN end ELSE start
             end_num   == IF start > end THEN start ELSE end
         IN  IF RangeTooLarge(start_num, end_num)
             THEN Response(400, FALSE, ErrRangeTooLarge, <<>>)
             ELSE LET results == CollatzAnalyzer_analyze_range(start_num, end_num)
                  IN  ResponseWithInsights(results, generate_insights(results))

(* ------------------------------ state ---------------------------------- *)
VARIABLES
    call,       \* the operation in progress or last completed, with its arguments
    status,     \* "idle", "running", "loop", "returned" or "raised"
    sequence,   \* local `sequence` of a direct collatz_sequence call
    current,    \* local `current` of a direct collatz_sequence call
    returned,   \* the list a direct collatz_sequence call returned
    raised,     \* the message of the ValueError the call raised, "" if none
    analysis,   \* <<result>> of a direct analyze_sequence call, <<>> if none
    response,   \* the response of the request handler, NoResponse if none
    data,       \* self.data of the CollatzConjecture object: its rows
    frame,      \* the rows of the frame the last run_analysis call returned
    insights,   \* <<result>> of a CollatzConjecture.generate_insights call
    requests,   \* the arguments of the run_analysis calls that returned
    threads     \* the run_analysis calls of two threads on one object

\* The state of the CollatzConjecture object, its caller and its threads.
libvars == <<data, frame, insights, requests, threads>>

vars == <<call, status, sequence, current, returned, raised, analysis, response,
          data, frame, insights, requests, threads>>

Threads == {1, 2}
IdleThread == [pc |-> "idle", args |-> <<>>, results |-> <<>>, seen |-> <<>>]

NInputs == (0 - MaxNeg) .. MaxN
CapBounds == {RangeCap + 1, RangeCap + 2, 2 * RangeCap}
RangeInputs == ((0 - MaxNeg) .. MaxBound) \cup CapBounds

Callable == status \in {"idle", "returned", "raised"}

\* A new call starts with fresh locals and nothing returned yet.
Begin(op, args) ==
    /\ call' = [op |-> op, args |-> args]
    /\ status' = "running"
    /\ sequence' = <<>>
    /\ current' = 0
    /\ returned' = <<>>
    /\ raised' = ""
    /\ analysis' = <<>>
    /\ response' = NoResponse

Init ==
    /\ call = [op |-> "none", args |-> <<>>]
    /\ status = "idle"
    /\ sequence = <<>>
    /\ current = 0
    /\ returned = <<>>
    /\ raised = ""
    /\ analysis = <<>>
    /\ response = NoResponse
    /\ data = <<>>
    /\ frame = <<>>
    /\ insights = <<>>
    /\ requests = <<>>
    /\ threads = [t \in Threads |-> IdleThread]

\* A caller invokes collatz_sequence(n) / analyze_sequence(n) directly.
CallCollatzSequence ==
    /\ Callable
    /\ UNCHANGED libvars
    /\ \E n \in NInputs : Begin("collatz_sequence", <<n>>)

CallAnalyzeSequence ==
    /\ Callable
    /\ UNCHANGED libvars
    /\ \E n \in NInputs : Begin("analyze_sequence", <<n>>)

\* A request arrives at a handler: `number`, or `start` and `end`, of its JSON.
RequestAnalyzeSingle ==
    /\ Callable
    /\ UNCHANGED libvars
    /\ \E number \in NInputs : Begin("analyze_single", <<number>>)

RequestAnalyzeRange ==
    /\ Callable
    /\ UNCHANGED libvars
    /\ \E start \in RangeInputs, end \in RangeInputs :
           Begin("analyze_range", <<start, end>>)

Running(op) == status = "running" /\ call.op = op

\* collatz_sequence up to the loop: the guard, then the locals.
CollatzSequenceEnter ==
    /\ Running("collatz_sequence")
    /\ IF collatz_sequence_raises(call.args[1])
       THEN /\ raised' = ErrStartingNumber
            /\ status' = "raised"
            /\ UNCHANGED <<sequence, current>>
       ELSE /\ sequence' = Locals(call.args[1]).sequence
            /\ current' = Locals(call.args[1]).current
            /\ status' = "loop"
            /\ UNCHANGED raised
    /\ UNCHANGED <<call, returned, analysis, response>>
    /\ UNCHANGED libvars

\* One iteration of the while loop.
CollatzSequenceIter ==
    /\ status = "loop"
    /\ LoopCond(current)
    /\ Len(sequence) < MaxSteps
    /\ current' = LoopOnce([sequence |-> sequence, current |-> current]).current
    /\ sequence' = LoopOnce([sequence |-> sequence, current |-> current]).sequence
    /\ UNCHANGED <<call, status, returned, raised, analysis, response>>
    /\ UNCHANGED libvars

\* The loop condition fails: `return sequence`.
CollatzSequenceReturn ==
    /\ status = "loop"
    /\ ~LoopCond(current)
    /\ returned' = sequence
    /\ status' = "returned"
    /\ UNCHANGED <<call, sequence, current, raised, analysis, response>>
    /\ UNCHANGED libvars

\* analyze_sequence(n) called directly; the ValueError of collatz_sequence
\* propagates to the caller.
AnalyzeSequence ==
    /\ Running("analyze_sequence")
    /\ IF collatz_sequence_raises(call.args[1])
       THEN /\ raised' = ErrStartingNumber
            /\ status' = "raised"
            /\ UNCHANGED analysis
       ELSE /\ analysis' = <<analyze_sequence(call.args[1])>>
            /\ status' = "returned"
            /\ UNCHANGED raised
    /\ UNCHANGED <<call, sequence, current, returned, response>>
    /\ UNCHANGED libvars

analyze_single ==
    /\ Running("analyze_single")
    /\ response' = analyze_single_response(call.args[1])
    /\ status' = "returned"
    /\ UNCHANGED <<call, sequence, current, returned, raised, analysis>>
    /\ UNCHANGED libvars

analyze_range ==
    /\ Running("analyze_range")
    /\ response' = analyze_range_response(call.args[1], call.args[2])
    /\ status' = "returned"
    /\ UNCHANGED <<call, sequence, current, returned, raised, analysis>>
    /\ UNCHANGED libvars

Next ==
    \/ CallCollatzSequence
    \/ CallAnalyzeSequence
    \/ RequestAnalyzeSingle
    \/ RequestAnalyzeRange
    \/ CollatzSequenceEnter
    \/ CollatzSequenceIter
    \/ CollatzSequenceReturn
    \/ AnalyzeSequence
    \/ analyze_single
    \/ analyze_range

Spec == Init /\ [][Next]_vars

\* A call that has started runs on: the interpreter executes the next
\* statement of a running function.
FairSpec ==
    /\ Spec
    /\ WF_vars(CollatzSequenceEnter)
    /\ WF_vars(CollatzSequenceIter)
    /\ WF_vars(CollatzSequenceReturn)

(* ------------------ one CollatzConjecture object, one caller ----------- *)
LibInputs == 0 .. MaxRun

\* The caller invokes collatz.run_analysis(start_range, end_range).
CallRunAnalysis ==
    /\ Callable
    /\ Len(requests) < MaxRequests
    /\ \E start_range \in LibInputs, end_range \in LibInputs :
           Begin("run_analysis", <<start_range, end_range>>)
    /\ frame' = <<>>
    /\ insights' = <<>>
    /\ UNCHANGED <<data, requests, threads>>

\* run_analysis: the loop, the frame of its results, `self.data = pd.concat(
\* [self.data, df])`, `return df`.
run_analysis ==
    /\ Running("run_analysis")
    /\ LET results == run_analysis_results(call.args[1], call.args[2])
       IN  IF frame_raises(results)
           THEN /\ raised' = ErrKeySequence
                /\ status' = "raised"
                /\ UNCHANGED <<data, frame, requests>>
           ELSE /\ data' = concat(data, results)
                /\ frame' = results
                /\ requests' = Append(requests, call.args)
                /\ status' = "returned"
                /\ UNCHANGED raised
    /\ UNCHANGED <<call, sequence, current, returned, analysis, response,
                   insights, threads>>

\* The caller invokes collatz.generate_insights().
CallGenerateInsights ==
    /\ Callable
    /\ Begin("generate_insights", <<>>)
    /\ insights' = <<>>
    /\ UNCHANGED <<data, frame, requests, threads>>

GenerateInsights ==
    /\ Running("generate_insights")
    /\ insights' = <<CollatzConjecture_generate_insights(data)>>
    /\ status' = "returned"
    /\ UNCHANGED <<call, sequence, current, returned, raised, analysis, response,
                   data, frame, requests, threads>>

LibNext ==
    \/ CallRunAnalysis
    \/ run_analysis
    \/ CallGenerateInsights
    \/ GenerateInsights

LibSpec == Init /\ [][LibNext]_vars

(* --------------- one CollatzConjecture object, two threads ------------- *)
\* What belongs to the single caller, which the threads leave alone.
othervars == <<call, status, sequence, current, returned, raised, analysis,
               response, frame, insights, requests>>

\* Thread t runs run_analysis up to the frame of its results; these are
\* locals of the call.
ThreadLoop(t) ==
    /\ threads[t].pc = "idle"
    /\ \E start_range \in LibInputs, end_range \in LibInputs :
          LET results == run_analysis_results(start_range, end_range)
          IN  threads' = [threads EXCEPT ![t] =
                  [pc      |-> IF frame_raises(results) THEN "raised" ELSE "built",
                   args    |-> <<start_range, end_range>>,
                   results |-> results,
                   seen    |-> <<>>]]
    /\ UNCHANGED data
    /\ UNCHANGED othervars

\* Thread t evaluates `pd.concat([self.data, df], ignore_index=True)`: it
\* reads self.data.
ThreadConcat(t) ==
    /\ threads[t].pc = "built"
    /\ threads' = [threads EXCEPT ![t].pc = "concatenated",
                                  ![t].seen = concat(data, threads[t].results)]
    /\ UNCHANGED data
    /\ UNCHANGED othervars

\* Thread t assigns the result to self.data and returns df.
ThreadAssign(t) ==
    /\ threads[t].pc = "concatenated"
    /\ data' = threads[t].seen
    /\ threads' = [threads EXCEPT ![t].pc = "returned"]
    /\ UNCHANGED othervars

ConcNext ==
    \E t \in Threads :
        \/ ThreadLoop(t)
        \/ ThreadConcat(t)
        \/ ThreadAssign(t)

ConcSpec == Init /\ [][ConcNext]_vars

(* ------------------------------ claims --------------------------------- *)
Returned(op) == status = "returned" /\ call.op = op

\* P holds of every analysis record in the state: the result of a direct
\* analyze_sequence call and the data of a handler's response.
AllAnalyses(P(_)) ==
    /\ \A i \in 1 .. Len(analysis) : P(analysis[i])
    /\ \A i \in 1 .. Len(response.data) : P(response.data[i])

SomeAnalysis(P(_)) ==
    \/ \E i \in 1 .. Len(analysis) : P(analysis[i])
    \/ \E i \in 1 .. Len(response.data) : P(response.data[i])

\* The bounds of a range request in ascending order.
Lo == IF call.args[1] > call.args[2] THEN call.args[2] ELSE call.args[1]
Hi == IF call.args[1] > call.args[2] THEN call.args[1] ELSE call.args[2]

RangeAnswered ==
    /\ Returned("analyze_range")
    /\ call.args[1] > 0
    /\ call.args[2] > 0

StartingNumbers(rows) == [i \in 1 .. Len(rows) |-> rows[i].starting_number]

\* C1: the sequence collatz_sequence(n) returns for a positive n starts with
\* n and ends with 1, whether it is returned to a direct caller or stored in
\* an analysis record.
C1_StartsAtNEndsAtOne ==
    /\ Returned("collatz_sequence") =>
          /\ Len(returned) >= 1
          /\ returned[1] = call.args[1]
          /\ returned[Len(returned)] = 1
    /\ AllAnalyses(LAMBDA a :
          /\ Len(a.sequence) >= 1
          /\ a.sequence[1] = a.starting_number
          /\ a.sequence[Len(a.sequence)] = 1)

C1_Witness ==
    /\ Returned("collatz_sequence")
    /\ call.args[1] = 6
    /\ returned = <<6, 3, 10, 5, 16, 8, 4, 2, 1>>

\* C2: a collatz_sequence call with a positive n leaves its while loop with
\* current = 1 and returns, and the loop never runs into the model's
\* iteration bound.
C2_Terminates ==
    /\ [](status = "loop" /\ LoopCond(current) => Len(sequence) < MaxSteps)
    /\ (Running("collatz_sequence") /\ call.args[1] > 0)
          ~> (Returned("collatz_sequence") /\ current = 1)

C2_Witness ==
    /\ Returned("collatz_sequence")
    /\ call.args[1] = 27
    /\ current = 1
    /\ Len(returned) = 112

\* C3: collatz_sequence with n <= 0 raises "Starting number must be
\* positive" without entering the loop and returns no sequence; the error
\* propagates unchanged through analyze_sequence, and analyze_single
\* answers a non-positive number with an error and no data.
C3_NonPositiveRaises ==
    /\ (call.op = "collatz_sequence" /\ call.args[1] <= 0 /\ status # "running") =>
          /\ status = "raised"
          /\ raised = ErrStartingNumber
          /\ sequence = <<>>
          /\ returned = <<>>
    /\ (call.op = "analyze_sequence" /\ call.args[1] <= 0 /\ status # "running") =>
          /\ status = "raised"
          /\ raised = ErrStartingNumber
          /\ analysis = <<>>
    /\ (Returned("analyze_single") /\ call.args[1] <= 0) =>
          /\ ~response.success
          /\ response.code = 400
          /\ response.data = <<>>

C3_Witness ==
    /\ call.op = "collatz_sequence"
    /\ call.args[1] = 0
    /\ status = "raised"
    /\ raised = ErrStartingNumber

\* C4: in every analysis record max_value is the greatest element of the
\* sequence and steps_to_peak is the zero-based position of its first
\* occurrence.
C4_PeakIsFirstMaximum ==
    AllAnalyses(LAMBDA a :
        LET s == a.sequence
            p == a.steps_to_peak + 1
        IN  /\ p \in 1 .. Len(s)
            /\ s[p] = a.max_value
            /\ \A i \in 1 .. Len(s) :
                  /\ s[i] <= a.max_value
                  /\ i < p => s[i] # a.max_value)

C4_Witness ==
    /\ Returned("analyze_sequence")
    /\ call.args[1] = 3
    /\ analysis[1].sequence = <<3, 10, 5, 16, 8, 4, 2, 1>>
    /\ analysis[1].max_value = 16
    /\ analysis[1].steps_to_peak = 3

\* C5 as stated: every analysis record has 1 <= steps_to_peak <
\* sequence_length.
C5_PeakIndexAtLeastOne ==
    AllAnalyses(LAMBDA a :
        1 <= a.steps_to_peak /\ a.steps_to_peak < a.sequence_length)

\* C5 amended: every analysis record has 0 <= steps_to_peak <
\* sequence_length; steps_to_peak is 0 when the starting number is itself
\* the peak.
C5_PeakIndexInRange ==
    AllAnalyses(LAMBDA a :
        /\ 0 <= a.steps_to_peak
        /\ a.steps_to_peak < a.sequence_length
        /\ a.steps_to_peak = 0 <=> a.max_value = a.starting_number)

C5_Witness ==
    SomeAnalysis(LAMBDA a :
        /\ a.starting_number = 4
        /\ a.steps_to_peak = 0
        /\ a.sequence_length = 3)

\* C6: analyze_sequence(27) reports sequence_length 112, max_value 9232 and
\* total_steps 111, and every record has total_steps = sequence_length - 1,
\* sequence_length being the length of the sequence.
C6_ReferenceValues ==
    AllAnalyses(LAMBDA a :
        /\ a.sequence_length = Len(a.sequence)
        /\ a.total_steps = a.sequence_length - 1
        /\ a.starting_number = 27 =>
              /\ a.sequence_length = 112
              /\ a.max_value = 9232
              /\ a.total_steps = 111)

C6_Witness ==
    /\ Returned("analyze_sequence")
    /\ call.args[1] = 27
    /\ analysis[1].sequence_length = 112
    /\ analysis[1].total_steps = 111

C8_CapBoundary ==
    /\ RangeAnswered =>
          /\ (response.code = 400 /\ response.error = ErrRangeTooLarge)
                <=> Hi - Lo > 1000
          /\ response.success <=> Hi - Lo <= 1000
    /\ (RangeAnswered /\ call.args = <<1, 2000>>) =>
          /\ ~response.success
          /\ response.error = ErrRangeTooLarge
          /\ response.data = <<>>
    /\ (RangeAnswered /\ call.args = <<1, 1001>>) => response.success

C8_Witness ==
    /\ RangeAnswered
    /\ call.args = <<1, 1001>>
    /\ response.success
    /\ response.code = 200

\* C9: an accepted range request analyzes at most 1000 starting numbers, and
\* a request covering more than 1000 integers is rejected.
C9_AtMostThousandNumbers ==
    RangeAnswered =>
        /\ response.success => Len(response.data) <= 1000
        /\ Hi - Lo + 1 > 1000 => ~response.success

\* C10: a successful range request returns one result per integer of
\* [start, end], end - start + 1 in all, the i-th for start + i - 1.
C10_OnePerInteger ==
    (RangeAnswered /\ response.success) =>
        /\ Len(response.data) = Hi - Lo + 1
        /\ \A i \in 1 .. Len(response.data) :
              response.data[i].starting_number = Lo + i - 1

C10_Witness ==
    /\ RangeAnswered
    /\ call.args = <<2, 5>>
    /\ response.success
    /\ StartingNumbers(response.data) = <<2, 3, 4, 5>>

\* The list nums of starting numbers with their listed keys is the first
\* min(5, N) rows of data in descending order of col, rows equal on col in
\* ascending order of starting number; data holds the numbers first,
\* first + 1, ... in order.
IsStableTop(nums, keys, col, first) ==
    LET N == Len(col)
        k == Len(nums)
        pos(i) == nums[i] - first + 1
    IN  /\ k = (IF N < 5 THEN N ELSE 5)
        /\ Len(keys) = k
        /\ \A i \in 1 .. k : pos(i) \in 1 .. N /\ col[pos(i)] = keys[i]
        /\ \A i \in 1 .. k : \A j \in (i + 1) .. k :
              \/ keys[i] > keys[j]
              \/ keys[i] = keys[j] /\ nums[i] < nums[j]
        /\ \A p \in 1 .. N :
              (\A i \in 1 .. k : pos(i) # p) =>
                  \/ col[p] < keys[k]
                  \/ col[p] = keys[k] /\ p > pos(k)

Longest == response.insights[1].numbers_with_longest_sequences
Highest == response.insights[1].numbers_with_highest_peaks

\* C12: in the insights of a range response, numbers_with_longest_sequences
\* (on sequence_length) and numbers_with_highest_peaks (on max_value) are
\* each the first min(5, N) of the N results sorted descending on the key,
\* equal keys in ascending order of starting number: at most 5, each a row
\* of the results, none left out that ranks before a listed one.
C12_TopFiveStable ==
    (RangeAnswered /\ response.success) =>
        /\ IsStableTop([i \in 1 .. Len(Longest) |-> Longest[i].starting_number],
                       [i \in 1 .. Len(Longest) |-> Longest[i].sequence_length],
                       [i \in 1 .. Len(response.data) |->
                           response.data[i].sequence_length],
                       Lo)
        /\ IsStableTop([i \in 1 .. Len(Highest) |-> Highest[i].starting_number],
                       [i \in 1 .. Len(Highest) |-> Highest[i].max_value],
                       [i \in 1 .. Len(response.data) |->
                           response.data[i].max_value],
                       Lo)

\* Fewer than five results, two of them with the same peak.
C12_Witness ==
    /\ RangeAnswered
    /\ call.args = <<3, 5>>
    /\ Len(response.insights) = 1
    /\ Highest = << [starting_number |-> 3, max_value |-> 16],
                    [starting_number |-> 5, max_value |-> 16],
                    [starting_number |-> 4, max_value |-> 4] >>

\* Every element of s but the last is a positive number other than 1, and
\* its successor is its half if it is even and three times it plus one if
\* it is odd.
ObeysStep(s) ==
    \A i \in 1 .. (Len(s) - 1) :
        /\ s[i] > 1
        /\ s[i] % 2 = 0 => 2 * s[i + 1] = s[i]
        /\ s[i] % 2 = 1 => s[i + 1] = 3 * s[i] + 1

\* C15: every consecutive pair of a generated sequence obeys the step
\* function on unbounded integers, no element before the last is 1, and
\* collatz_sequence(1) is [1]; this holds of the list under construction,
\* of the list returned and of the list in every analysis record.
C15_StepFunction ==
    /\ ObeysStep(sequence)
    /\ ObeysStep(returned)
    /\ (Returned("collatz_sequence") /\ call.args[1] = 1) => returned = <<1>>
    /\ AllAnalyses(LAMBDA a :
          /\ ObeysStep(a.sequence)
          /\ a.starting_number = 1 => a.sequence = <<1>>)

C15_Witness ==
    /\ Returned("collatz_sequence")
    /\ returned = <<7, 22, 11, 34, 17, 52, 26, 13, 40, 20, 10, 5, 16, 8, 4, 2, 1>>

Successes(args) ==
    LET first == IF args[1] < 1 THEN 1 ELSE args[1]
    IN  [i \in 1 .. (args[2] - first + 1) |-> first + i - 1]

RECURSIVE AllSuccesses(_)
AllSuccesses(reqs) ==
    IF reqs = <<>> THEN <<>>
    ELSE AllSuccesses(SubSeq(reqs, 1, Len(reqs) - 1)) \o Successes(reqs[Len(reqs)])

Finished(op) == call.op = op /\ status \in {"returned", "raised"}

\* C11: a run_analysis call over a range in which some numbers fail does not
\* abort: it returns, and the frame it returns holds exactly the numbers
\* that succeeded, in ascending order.
C11_FailuresIsolated ==
    Finished("run_analysis") =>
        /\ status = "returned"
        /\ StartingNumbers(frame) = Successes(call.args)

\* C13: a range request with no successful result ends in the no-data
\* error, and insights over no data are the no-data error, not statistics.
C13_ZeroResultsSignalNoData ==
    /\ (Finished("run_analysis") /\ Successes(call.args) = <<>>) =>
          /\ status = "raised"
          /\ raised = ErrNoData
    /\ (Returned("generate_insights") /\ data = <<>>) =>
          insights = <<[error |-> ErrNoData]>>

RankedNumbers(ins) ==
    {ins.numbers_with_longest_sequences[i].starting_number :
        i \in 1 .. Len(ins.numbers_with_longest_sequences)}
    \cup {ins.numbers_with_highest_peaks[i].starting_number :
        i \in 1 .. Len(ins.numbers_with_highest_peaks)}

Numbers(rows) == {rows[i].starting_number : i \in 1 .. Len(rows)}

ThreadsFinished == \A t \in Threads : threads[t].pc \in {"returned", "raised"}

\* What thread t's call adds to self.data.
Added(t) == IF threads[t].pc = "returned" THEN threads[t].results ELSE <<>>

\* C17: when two concurrent run_analysis calls on one object have finished,
\* self.data is what the two calls made one after the other, in one order
\* or the other, leave there.
C17_SerialOutcome ==
    ThreadsFinished =>
        \/ data = Added(1) \o Added(2)
        \/ data = Added(2) \o Added(1)

====
